---- MODULE Spec2Model ----
(***************************************************************************)
(* Model of the /process-pdf request handler of src/server.js: the text    *)
(* piece collector, the JSON salvage chain and the request/response        *)
(* contract around them.  Texts are sequences of one-character strings;    *)
(* JSON values are tagged records; indices into texts are 0-based where    *)
(* the JavaScript source uses them (indexOf, lastIndexOf, slice).          *)
(***************************************************************************)
EXTENDS Integers, Sequences, FiniteSets, TLC

(***************************************************************************)
(* Bounds of the model.                                                    *)
(***************************************************************************)
\* longest text drawn exhaustively from Alphabet as an upstream string
MaxStrLen == 4
\* longest garbage put before and after an embedded JSON document
MaxPadLen == 1

(***************************************************************************)
(* Program constants.                                                      *)
(***************************************************************************)
\* joinedText.slice(0, 32000) and JSON.stringify(candidate).slice(0, 32000)
PreviewLimit == 32000

(***************************************************************************)
(* Property names, literals and fixed messages of the source, as texts.    *)
(***************************************************************************)
K_candidates == <<"c", "a", "n", "d", "i", "d", "a", "t", "e", "s">>
K_content == <<"c", "o", "n", "t", "e", "n", "t">>
K_parts == <<"p", "a", "r", "t", "s">>
K_text == <<"t", "e", "x", "t">>
K_output == <<"o", "u", "t", "p", "u", "t">>
K_nested == <<"n", "e", "s", "t", "e", "d">>
K_modelVersion == <<"m", "o", "d", "e", "l", "V", "e", "r", "s", "i", "o", "n">>
K_usageMetadata == <<"u", "s", "a", "g", "e", "M", "e", "t", "a", "d", "a", "t", "a">>
K_usage == <<"u", "s", "a", "g", "e">>
K_OutputText == <<"O", "u", "t", "p", "u", "t", "T", "e", "x", "t">>
K_error == <<"e", "r", "r", "o", "r">>
K_detail == <<"d", "e", "t", "a", "i", "l">>
K_rawResponse == <<"r", "a", "w", "R", "e", "s", "p", "o", "n", "s", "e">>
K_message == <<"m", "e", "s", "s", "a", "g", "e">>
K_rawPreview == <<"r", "a", "w", "P", "r", "e", "v", "i", "e", "w">>
K_piecesCollected == <<"p", "i", "e", "c", "e", "s", "C", "o", "l", "l", "e", "c", "t", "e", "d">>
K_candidatePreview == <<"c", "a", "n", "d", "i", "d", "a", "t", "e", "P", "r", "e", "v", "i", "e", "w">>
S_hello == <<"h", "e", "l", "l", "o">>
S_world == <<"w", "o", "r", "l", "d">>
MsgNoFile == <<"N", "o", " ", "P", "D", "F", " ", "f", "i", "l", "e", " ", "u", "p", "l", "o", "a", "d", "e", "d", ".">>
MsgNoKey == <<"G", "E", "M", "I", "N", "I", "_", "A", "P", "I", "_", "K", "E", "Y", " ", "n", "o", "t", " ", "s", "e", "t", " ", "i", "n", " ", ".", "e", "n", "v">>
MsgNoCandidate == <<"N", "o", " ", "c", "a", "n", "d", "i", "d", "a", "t", "e", " ", "r", "e", "t", "u", "r", "n", "e", "d", " ", "f", "r", "o", "m", " ", "G", "e", "m", "i", "n", "i">>
MsgParseFailed == <<"F", "a", "i", "l", "e", "d", " ", "t", "o", " ", "p", "a", "r", "s", "e", " ", "J", "S", "O", "N", " ", "f", "r", "o", "m", " ", "G", "e", "m", "i", "n", "i", " ", "r", "e", "s", "p", "o", "n", "s", "e">>
MsgTransport == <<"F", "a", "i", "l", "e", "d", " ", "t", "o", " ", "p", "r", "o", "c", "e", "s", "s", " ", "P", "D", "F", " ", "w", "i", "t", "h", " ", "G", "e", "m", "i", "n", "i", " ", "A", "I", ".">>
MsgNetwork == <<"N", "e", "t", "w", "o", "r", "k", " ", "E", "r", "r", "o", "r">>
MsgTimeout == <<"t", "i", "m", "e", "o", "u", "t", " ", "o", "f", " ", "2", "2", "0", "0", "0", "0", "m", "s", " ", "e", "x", "c", "e", "e", "d", "e", "d">>
L_true == <<"t", "r", "u", "e">>
L_false == <<"f", "a", "l", "s", "e">>
L_null == <<"n", "u", "l", "l">>
K_response == <<"r", "e", "s", "p", "o", "n", "s", "e">>
K_data == <<"d", "a", "t", "a">>
K_totalTokenCount == <<"t", "o", "t", "a", "l", "T", "o", "k", "e", "n", "C", "o", "u", "n", "t">>
K_index == <<"i", "n", "d", "e", "x">>
K_promptFeedback == <<"p", "r", "o", "m", "p", "t", "F", "e", "e", "d", "b", "a", "c", "k">>
MsgStatus == <<"R", "e", "q", "u", "e", "s", "t", " ", "f", "a", "i", "l", "e", "d", " ", "w", "i", "t", "h", " ", "s", "t", "a", "t", "u", "s", " ", "c", "o", "d", "e", " ", "5", "0", "0">>
MsgUnexpected == <<"U", "n", "e", "x", "p", "e", "c", "t", "e", "d", " ", "t", "o", "k", "e", "n">>

(***************************************************************************)
(* JSON-like values (response.data, candidate, parsed documents, response  *)
(* bodies).  Every value is a record with the same fields: t is the type   *)
(* tag, s the text of a string, n the number (1/0 for true/false), kids    *)
(* the elements of an array or the properties of an object, in order.      *)
(***************************************************************************)
Undefined == [t |-> "undef", s |-> <<>>, n |-> 0, kids |-> <<>>]
Null == [t |-> "null", s |-> <<>>, n |-> 0, kids |-> <<>>]
Str(chars) == [t |-> "str", s |-> chars, n |-> 0, kids |-> <<>>]
Num(k) == [t |-> "num", s |-> <<>>, n |-> k, kids |-> <<>>]
Bool(b) == [t |-> "bool", s |-> <<>>, n |-> IF b THEN 1 ELSE 0, kids |-> <<>>]
Prop(key, val) == [k |-> key, v |-> val]
Arr(els) == [t |-> "arr", s |-> <<>>, n |-> 0,
             kids |-> [i \in 1..Len(els) |-> Prop(<<>>, els[i])]]
Obj(props) == [t |-> "obj", s |-> <<>>, n |-> 0, kids |-> props]

\* JavaScript truthiness, as used by `!obj` and `!candidate`
Truthy(v) ==
    CASE v.t = "undef" -> FALSE
      [] v.t = "null" -> FALSE
      [] v.t = "bool" -> v.n = 1
      [] v.t = "num" -> v.n # 0
      [] v.t = "str" -> v.s # <<>>
      [] OTHER -> TRUE

\* obj[key] on an own property; undefined otherwise
GetProp(v, key) ==
    IF v.t = "obj" /\ \E i \in 1..Len(v.kids) : v.kids[i].k = key
    THEN v.kids[CHOOSE i \in 1..Len(v.kids) : v.kids[i].k = key].v
    ELSE Undefined

\* v?.key
OptGet(v, key) ==
    IF v.t \in {"undef", "null"} THEN Undefined ELSE GetProp(v, key)

Digits == <<"0", "1", "2", "3", "4", "5", "6", "7", "8", "9">>

\* the decimal text of an integer: String(k)
RECURSIVE DecimalText(_)
DecimalText(k) ==
    IF k < 0 THEN <<"-">> \o DecimalText(0 - k)
    ELSE IF k < 10 THEN <<Digits[k + 1]>>
    ELSE DecimalText(k \div 10) \o <<Digits[(k % 10) + 1]>>

\* v?.[i] for a 0-based index: an array element, a character of a string,
\* or the property of an object whose key is the decimal text of i
OptIndex(v, i) ==
    IF v.t = "arr" /\ i < Len(v.kids) THEN v.kids[i + 1].v
    ELSE IF v.t = "str" /\ i < Len(v.s) THEN Str(<<v.s[i + 1]>>)
    ELSE IF v.t = "obj" THEN GetProp(v, DecimalText(i))
    ELSE Undefined

\* a || b
OrElse(a, b) == IF Truthy(a) THEN a ELSE b

\* a ?? b
Coalesce(a, b) == IF a.t \in {"undef", "null"} THEN b ELSE a

(***************************************************************************)
(* String primitives of the source.                                        *)
(***************************************************************************)
UpperCase == <<"A", "B", "C", "D", "E", "F", "G", "H", "I", "J", "K", "L", "M",
               "N", "O", "P", "Q", "R", "S", "T", "U", "V", "W", "X", "Y", "Z">>
LowerCase == <<"a", "b", "c", "d", "e", "f", "g", "h", "i", "j", "k", "l", "m",
               "n", "o", "p", "q", "r", "s", "t", "u", "v", "w", "x", "y", "z">>

ToLowerChar(c) ==
    IF \E i \in 1..26 : UpperCase[i] = c
    THEN LowerCase[CHOOSE i \in 1..26 : UpperCase[i] = c]
    ELSE c

ToLower(s) == [i \in 1..Len(s) |-> ToLowerChar(s[i])]

\* pat occurs in s as a contiguous substring
Contains(s, pat) ==
    \E i \in 0..(Len(s) - Len(pat)) : SubSeq(s, i + 1, i + Len(pat)) = pat

\* (/text|content|message|output/i).test(k)
TextKeyRegexTest(k) ==
    \E pat \in {K_text, K_content, K_message, K_output} : Contains(ToLower(k), pat)

\* s.indexOf(c): 0-based index of the first occurrence, -1 when there is none
IndexOf(s, c) ==
    IF \E i \in 1..Len(s) : s[i] = c
    THEN (CHOOSE i \in 1..Len(s) : s[i] = c /\ \A j \in 1..(i - 1) : s[j] # c) - 1
    ELSE -1

\* s.lastIndexOf(c)
LastIndexOf(s, c) ==
    IF \E i \in 1..Len(s) : s[i] = c
    THEN (CHOOSE i \in 1..Len(s) : s[i] = c /\ \A j \in (i + 1)..Len(s) : s[j] # c) - 1
    ELSE -1

\* s.slice(from, to) for 0 <= from: the characters at 0-based from..to-1
Slice(s, from, to) ==
    LET hi == IF to > Len(s) THEN Len(s) ELSE to
    IN  IF from >= hi THEN <<>> ELSE SubSeq(s, from + 1, hi)

IsSpace(c) == c \in {" ", "\n", "\t", "\r"}

\* s.trim()
Trim(s) ==
    IF \A i \in 1..Len(s) : IsSpace(s[i]) THEN <<>>
    ELSE LET a == CHOOSE i \in 1..Len(s) :
                      ~IsSpace(s[i]) /\ \A j \in 1..(i - 1) : IsSpace(s[j])
             b == CHOOSE i \in 1..Len(s) :
                      ~IsSpace(s[i]) /\ \A j \in (i + 1)..Len(s) : IsSpace(s[j])
         IN  SubSeq(s, a, b)

RECURSIVE JoinFrom(_, _, _)
JoinFrom(pieces, i, sep) ==
    IF i > Len(pieces) THEN <<>>
    ELSE IF i = Len(pieces) THEN pieces[i]
    ELSE pieces[i] \o sep \o JoinFrom(pieces, i + 1, sep)

\* pieces.join(sep)
Join(pieces, sep) == JoinFrom(pieces, 1, sep)

(***************************************************************************)
(* collectTextPieces: the recursive collector of text-like fields.         *)
(***************************************************************************)
RECURSIVE collectTextPieces(_, _)
RECURSIVE CollectElements(_, _, _)
RECURSIVE CollectKeys(_, _, _)

\* for (const el of obj) collectTextPieces(el, out)
CollectElements(kids, i, out) ==
    IF i > Len(kids) THEN out
    ELSE CollectElements(kids, i + 1, collectTextPieces(kids[i].v, out))

\* the loop body with the walk of the value skipped once it was pushed
CollectKey_PushOrWalk(k, v, out) ==
    IF TextKeyRegexTest(k) /\ v.t = "str" THEN Append(out, v.s)
    ELSE collectTextPieces(v, out)

\* the body of the loop over Object.keys(obj): a string under a text-like
\* key is pushed, and the value is walked whatever its key
CollectKey(k, v, out) ==
    LET pushed == IF TextKeyRegexTest(k) /\ v.t = "str" THEN Append(out, v.s) ELSE out
    IN  collectTextPieces(v, pushed)

\* for (const k of Object.keys(obj)) { ... }
CollectKeys(kids, i, out) ==
    IF i > Len(kids) THEN out
    ELSE CollectKeys(kids, i + 1, CollectKey(kids[i].k, kids[i].v, out))

collectTextPieces(obj, out) ==
    IF ~Truthy(obj) THEN out
    ELSE IF obj.t = "str" THEN Append(out, obj.s)
    ELSE IF obj.t = "arr" THEN CollectElements(obj.kids, 1, out)
    ELSE IF obj.t = "obj" THEN CollectKeys(obj.kids, 1, out)
    ELSE out

(***************************************************************************)
(* JSON.parse, by recursive descent over the text.  Grammar: objects,      *)
(* arrays, strings (escapes \" \\ \/ \f \n \r \t; a raw control character  *)
(* ends the parse), integers, true, false, null, and JSON whitespace.      *)
(* Fractions, exponents and the escapes \b and \u are outside the grammar  *)
(* of the model, and no text the model draws contains them.                *)
(***************************************************************************)
IsDigit(c) == \E d \in 1..10 : Digits[d] = c

DigitValue(c) == (CHOOSE d \in 1..10 : Digits[d] = c) - 1

\* a parse step: ok, the value, and the 1-based position after it
ParseOk(val, next) == [ok |-> TRUE, v |-> val, i |-> next]
ParseFail == [ok |-> FALSE, v |-> Undefined, i |-> 0]

RECURSIVE SkipSpace(_, _)
SkipSpace(s, i) ==
    IF i <= Len(s) /\ IsSpace(s[i]) THEN SkipSpace(s, i + 1) ELSE i

\* the character an escape sequence \c stands for, "" when JSON has no such escape
Unescape(c) ==
    CASE c = "\"" -> "\""
      [] c = "\\" -> "\\"
      [] c = "/" -> "/"
      [] c = "n" -> "\n"
      [] c = "t" -> "\t"
      [] c = "r" -> "\r"
      [] c = "f" -> "\f"
      [] OTHER -> ""

\* the characters of a string literal, from the position after its opening quote
RECURSIVE ParseString(_, _, _)
ParseString(s, i, acc) ==
    IF i > Len(s) THEN ParseFail
    ELSE IF s[i] = "\"" THEN ParseOk(Str(acc), i + 1)
    ELSE IF s[i] = "\\" THEN
        IF i + 1 > Len(s) \/ Unescape(s[i + 1]) = "" THEN ParseFail
        ELSE ParseString(s, i + 2, Append(acc, Unescape(s[i + 1])))
    ELSE IF s[i] \in {"\n", "\t", "\r", "\f"} THEN ParseFail
    ELSE ParseString(s, i + 1, Append(acc, s[i]))

\* the digits of an integer from position i, of which acc is the value so far
RECURSIVE ParseDigits(_, _, _)
ParseDigits(s, i, acc) ==
    IF i <= Len(s) /\ IsDigit(s[i])
    THEN ParseDigits(s, i + 1, acc * 10 + DigitValue(s[i]))
    ELSE ParseOk(Num(acc), i)

\* an integer without sign: a single 0, or a digit 1-9 and more digits
ParseInt(s, i) ==
    IF i > Len(s) \/ ~IsDigit(s[i]) THEN ParseFail
    ELSE IF s[i] = "0" THEN ParseOk(Num(0), i + 1)
    ELSE ParseDigits(s, i, 0)

ParseNumber(s, i) ==
    IF s[i] = "-"
    THEN LET r == ParseInt(s, i + 1)
         IN  IF r.ok THEN ParseOk(Num(0 - r.v.n), r.i) ELSE ParseFail
    ELSE ParseInt(s, i)

ParseLiteral(s, i, word, val) ==
    IF i + Len(word) - 1 <= Len(s) /\ SubSeq(s, i, i + Len(word) - 1) = word
    THEN ParseOk(val, i + Len(word))
    ELSE ParseFail

\* the property list with key set to val: a repeated key keeps its first
\* position and takes the last value
SetProp(props, key, val) ==
    IF \E j \in 1..Len(props) : props[j].k = key
    THEN [j \in 1..Len(props) |-> IF props[j].k = key THEN Prop(key, val) ELSE props[j]]
    ELSE Append(props, Prop(key, val))

RECURSIVE ParseValue(_, _)
RECURSIVE ParseMembers(_, _, _)
RECURSIVE ParseElements(_, _, _)

\* "key": value pairs from position i, up to and including the closing brace
ParseMembers(s, i, acc) ==
    LET j == SkipSpace(s, i)
    IN  IF j > Len(s) \/ s[j] # "\"" THEN ParseFail
        ELSE LET key == ParseString(s, j + 1, <<>>)
             IN  IF ~key.ok THEN ParseFail
                 ELSE LET c == SkipSpace(s, key.i)
                      IN  IF c > Len(s) \/ s[c] # ":" THEN ParseFail
                          ELSE LET val == ParseValue(s, c + 1)
                               IN  IF ~val.ok THEN ParseFail
                                   ELSE LET m == SkipSpace(s, val.i)
                                            props == SetProp(acc, key.v.s, val.v)
                                        IN  IF m > Len(s) THEN ParseFail
                                            ELSE IF s[m] = "," THEN ParseMembers(s, m + 1, props)
                                            ELSE IF s[m] = "}" THEN ParseOk(Obj(props), m + 1)
                                            ELSE ParseFail

\* array elements from position i, up to and including the closing bracket
ParseElements(s, i, acc) ==
    LET val == ParseValue(s, i)
    IN  IF ~val.ok THEN ParseFail
        ELSE LET m == SkipSpace(s, val.i)
                 els == Append(acc, val.v)
             IN  IF m > Len(s) THEN ParseFail
                 ELSE IF s[m] = "," THEN ParseElements(s, m + 1, els)
                 ELSE IF s[m] = "]" THEN ParseOk(Arr(els), m + 1)
                 ELSE ParseFail

\* one JSON value from position i, after leading whitespace
ParseValue(s, i) ==
    LET j == SkipSpace(s, i)
    IN  IF j > Len(s) THEN ParseFail
        ELSE IF s[j] = "{" THEN
            LET m == SkipSpace(s, j + 1)
            IN  IF m <= Len(s) /\ s[m] = "}" THEN ParseOk(Obj(<<>>), m + 1)
                ELSE ParseMembers(s, j + 1, <<>>)
        ELSE IF s[j] = "[" THEN
            LET m == SkipSpace(s, j + 1)
            IN  IF m <= Len(s) /\ s[m] = "]" THEN ParseOk(Arr(<<>>), m + 1)
                ELSE ParseElements(s, j + 1, <<>>)
        ELSE IF s[j] = "\"" THEN ParseString(s, j + 1, <<>>)
        ELSE IF s[j] = "-" \/ IsDigit(s[j]) THEN ParseNumber(s, j)
        ELSE IF s[j] = "t" THEN ParseLiteral(s, j, L_true, Bool(TRUE))
        ELSE IF s[j] = "f" THEN ParseLiteral(s, j, L_false, Bool(FALSE))
        ELSE IF s[j] = "n" THEN ParseLiteral(s, j, L_null, Null)
        ELSE ParseFail

\* JSON.parse(text): ok is FALSE where JSON.parse throws a SyntaxError
JSONParse(text) ==
    LET r == ParseValue(text, 1)
    IN  IF r.ok /\ SkipSpace(text, r.i) > Len(text)
        THEN [ok |-> TRUE, v |-> r.v]
        ELSE [ok |-> FALSE, v |-> Undefined]

(***************************************************************************)
(* JSON.stringify, for the candidate preview of the salvage-failure body.  *)
(***************************************************************************)
EscapeChar(c) ==
    CASE c = "\"" -> <<"\\", "\"">>
      [] c = "\\" -> <<"\\", "\\">>
      [] c = "\n" -> <<"\\", "n">>
      [] c = "\t" -> <<"\\", "t">>
      [] c = "\r" -> <<"\\", "r">>
      [] c = "\f" -> <<"\\", "f">>
      [] OTHER -> <<c>>

RECURSIVE EscapeFrom(_, _)
EscapeFrom(s, i) ==
    IF i > Len(s) THEN <<>> ELSE EscapeChar(s[i]) \o EscapeFrom(s, i + 1)

Quote(s) == <<"\"">> \o EscapeFrom(s, 1) \o <<"\"">>

RECURSIVE Stringify(_)
RECURSIVE StringifyKids(_, _, _)

\* the comma-separated elements or "key":value properties from position i
StringifyKids(kids, i, keyed) ==
    IF i > Len(kids) THEN <<>>
    ELSE (IF i > 1 THEN <<",">> ELSE <<>>)
         \o (IF keyed THEN Quote(kids[i].k) \o <<":">> ELSE <<>>)
         \o Stringify(kids[i].v)
         \o StringifyKids(kids, i + 1, keyed)

Stringify(v) ==
    CASE v.t = "str" -> Quote(v.s)
      [] v.t = "num" -> DecimalText(v.n)
      [] v.t = "bool" -> IF v.n = 1 THEN L_true ELSE L_false
      [] v.t = "arr" -> <<"[">> \o StringifyKids(v.kids, 1, FALSE) \o <<"]">>
      [] v.t = "obj" -> <<"{">> \o StringifyKids(v.kids, 1, TRUE) \o <<"}">>
      [] OTHER -> L_null

(***************************************************************************)
(* Inputs: what the upstream service can answer.                           *)
(***************************************************************************)
Alphabet == {"{", "}", "\"", "a", " "}
PadAlphabet == {"{", "}", "[", "]", "a"}

SeqsUpTo(S, n) == UNION {[1..m -> S] : m \in 0..n}

\* JSON documents embedded between two pads
Documents ==
    { <<"{", "}">>,
      <<"{", "\"", "a", "\"", ":", "1", "}">>,
      <<"{", "\"", "a", "\"", ":", "\"", "}", "\"", "}">>,
      <<"{", "\"", "a", "\"", ":", "{", "}", ",", "\"", "b", "\"", ":", "[", "1", "]", "}">>,
      <<"[", "{", "}", "]">>,
      <<"[", "1", ",", "1", "]">>,
      <<"\"", "a", "\"">>,
      <<"1", "0">> }

Framed ==
    { pre \o doc \o post : pre \in SeqsUpTo(PadAlphabet, MaxPadLen),
                           doc \in Documents,
                           post \in SeqsUpTo(PadAlphabet, MaxPadLen) }

\* a text one character longer than the previews of the salvage-failure body
LongText == [i \in 1..(PreviewLimit + 1) |-> "a"]

UpstreamTexts == SeqsUpTo(Alphabet, MaxStrLen) \cup Framed \cup {LongText}

\* the documented shape {candidates: [{content: {parts: [{text: T}]}}]}
StandardResponse(text) ==
    Obj(<<Prop(K_candidates,
               Arr(<<Obj(<<Prop(K_content,
                               Obj(<<Prop(K_parts,
                                          Arr(<<Obj(<<Prop(K_text, Str(text))>>)>>))>>))>>)>>))>>)

\* a candidate that holds no string, beside a string elsewhere in the response
SideResponse(cand, key, text) ==
    Obj(<<Prop(K_candidates, Arr(<<cand>>)),
          Prop(key, Str(text)),
          Prop(K_usageMetadata, Obj(<<Prop(K_totalTokenCount, Num(1))>>))>>)

\* {"output": "hello", "nested": {"text": "world"}}
ExampleObject ==
    Obj(<<Prop(K_output, Str(S_hello)),
          Prop(K_nested, Obj(<<Prop(K_text, Str(S_world))>>))>>)

StringFreeCandidates == {Obj(<<Prop(K_index, Num(0))>>), Bool(TRUE), Arr(<<>>)}

\* responses without a first candidate
CandidateFreeResponses ==
    { Null, Undefined, Str(<<"a">>), Str(LongText), Obj(<<>>),
      Obj(<<Prop(K_candidates, Arr(<<>>))>>),
      Obj(<<Prop(K_candidates, Arr(<<Null>>))>>),
      Obj(<<Prop(K_candidates, Arr(<<Num(0)>>))>>),
      Obj(<<Prop(K_candidates, Arr(<<Str(<<>>)>>))>>),
      Obj(<<Prop(K_candidates, Str(<<>>))>>),
      Obj(<<Prop(K_candidates, Null)>>) }
    \cup { Obj(<<Prop(K_candidates, Arr(<<>>)), Prop(K_promptFeedback, Str(txt))>>) :
             txt \in SeqsUpTo(Alphabet, 1) }

Responses ==
    { StandardResponse(txt) : txt \in SeqsUpTo(Alphabet, MaxStrLen) \cup Documents }
    \cup { SideResponse(Obj(<<Prop(K_index, Num(0))>>), K_modelVersion, txt) :
             txt \in UpstreamTexts }
    \cup { SideResponse(c, k, txt) : c \in StringFreeCandidates,
                                     k \in {K_modelVersion, K_OutputText},
                                     txt \in SeqsUpTo(Alphabet, 2) }
    \cup { Obj(<<Prop(K_candidates, Str(txt))>>) : txt \in SeqsUpTo(Alphabet, 2) }
    \cup { Obj(<<Prop(K_candidates, Arr(<<c>>))>>) :
             c \in StringFreeCandidates \cup {ExampleObject} }
    \cup { Obj(<<Prop(K_candidates, Arr(<<ExampleObject>>)),
                 Prop(K_usage, Num(1))>>),
           Obj(<<Prop(K_candidates, Obj(<<Prop(<<"0">>, ExampleObject)>>))>>) }
    \cup CandidateFreeResponses

\* what axios rejects with: no response at all (network error, timeout), or
\* a response with a non-success status and its payload
TransportErrors ==
    { [response |-> Undefined, message |-> Str(MsgNetwork)],
      [response |-> Undefined, message |-> Str(MsgTimeout)] }
    \cup { [response |-> Obj(<<Prop(K_data, d)>>), message |-> Str(MsgStatus)] :
             d \in {Undefined, Null, Str(<<>>)}
                   \cup { Obj(<<Prop(K_error, Str(txt))>>) : txt \in SeqsUpTo(Alphabet, 1) } }

(***************************************************************************)
(* The request handler app.post('/process-pdf').  One request is followed  *)
(* from its arrival to its response; pc is the position in the handler,    *)
(* exit the return statement that ended it.                                *)
(***************************************************************************)
VARIABLES
    pc,             \* position of the handler
    exit,           \* which return ended the handler, "" while it runs
    reqFile,        \* req.file is present
    apiKey,         \* process.env.GEMINI_API_KEY is set
    error,          \* what axios.post rejected with, if it did
    response,       \* response.data
    candidate,      \* response.data?.candidates?.[0]
    textPieces,     \* the fragments collected so far
    joinedText,     \* textPieces.join('\n').trim()
    usage,          \* the usage metadata of the response, or null
    sent,           \* the responses sent on res, in order: [status, body]
    upstreamCalls,  \* calls of axios.post made
    collectorCalls, \* top-level calls of collectTextPieces made
    attempts        \* calls of JSON.parse made: [strategy, text, ok]

vars ==
    <<pc, exit, reqFile, apiKey, error, response, candidate, textPieces, joinedText,
      usage, sent, upstreamCalls, collectorCalls, attempts>>

\* res.status(code).json(body)
Reply(code, body) == [status |-> code, body |-> body]

\* res.json(body): the status stays at its default
ReplyOk(body) == Reply(200, body)

Attempt(strategy, text, ok) == [strategy |-> strategy, text |-> text, ok |-> ok]

NoError == [response |-> Undefined, message |-> Undefined]

Init ==
    /\ pc = "start"
    /\ exit = ""
    /\ reqFile \in BOOLEAN
    /\ apiKey \in BOOLEAN
    /\ error = NoError
    /\ response = Undefined
    /\ candidate = Undefined
    /\ textPieces = <<>>
    /\ joinedText = <<>>
    /\ usage = Null
    /\ sent = <<>>
    /\ upstreamCalls = 0
    /\ collectorCalls = 0
    /\ attempts = <<>>

\* the guard on req.file left out
NoFile_Absent(file) == FALSE

\* if (!req.file)
NoFile(file) == ~file

\* if (!GEMINI_API_KEY)
NoKey(key) == ~key

\* the handler up to the await of axios.post
Receive ==
    /\ pc = "start"
    /\ IF NoFile(reqFile)
       THEN /\ sent' = Append(sent, Reply(400, Obj(<<Prop(K_error, Str(MsgNoFile))>>)))
            /\ pc' = "done"
            /\ exit' = "noFile"
            /\ UNCHANGED upstreamCalls
       ELSE IF NoKey(apiKey)
       THEN /\ sent' = Append(sent, Reply(500, Obj(<<Prop(K_error, Str(MsgNoKey))>>)))
            /\ pc' = "done"
            /\ exit' = "noKey"
            /\ UNCHANGED upstreamCalls
       ELSE /\ upstreamCalls' = upstreamCalls + 1
            /\ pc' = "await"
            /\ UNCHANGED <<sent, exit>>
    /\ UNCHANGED <<reqFile, apiKey, error, response, candidate, textPieces, joinedText,
                   usage, collectorCalls, attempts>>

\* error.response?.data ?? error.message
ErrorDetail(rejection) == Coalesce(OptGet(rejection.response, K_data), rejection.message)

\* the outer catch: axios.post rejected
UpstreamFails ==
    /\ pc = "await"
    /\ \E rejection \in TransportErrors :
          /\ error' = rejection
          /\ sent' = Append(sent, Reply(500, Obj(<<Prop(K_error, Str(MsgTransport)),
                                                    Prop(K_detail, ErrorDetail(rejection))>>)))
    /\ pc' = "done"
    /\ exit' = "transport"
    /\ UNCHANGED <<reqFile, apiKey, response, candidate, textPieces, joinedText,
                   usage, upstreamCalls, collectorCalls, attempts>>

\* response.data?.candidates?.[0]
FirstCandidate(data) == OptIndex(OptGet(data, K_candidates), 0)

\* a test for undefined only: if (candidate === undefined)
NoCandidate_UndefinedOnly(cand) == cand.t = "undef"

\* if (!candidate)
NoCandidate(cand) == ~Truthy(cand)

\* axios.post resolved: the candidate is selected and walked by the collector
UpstreamReplies ==
    /\ pc = "await"
    /\ \E data \in Responses :
          /\ response' = data
          /\ candidate' = FirstCandidate(data)
          /\ IF NoCandidate(FirstCandidate(data))
             THEN /\ sent' = Append(sent, Reply(500, Obj(<<Prop(K_error, Str(MsgNoCandidate)),
                                                            Prop(K_rawResponse, data)>>)))
                  /\ pc' = "done"
                  /\ exit' = "noCandidate"
                  /\ UNCHANGED <<textPieces, collectorCalls>>
             ELSE /\ textPieces' = collectTextPieces(FirstCandidate(data), <<>>)
                  /\ collectorCalls' = collectorCalls + 1
                  /\ pc' = "collect"
                  /\ UNCHANGED <<sent, exit>>
    /\ UNCHANGED <<reqFile, apiKey, error, joinedText, usage, upstreamCalls, attempts>>

\* textPieces.join('\n').trim()
JoinPieces(pieces) == Trim(Join(pieces, <<"\n">>))

\* response.data?.usageMetadata || response.data?.usage || null
UsageOf(data) == OrElse(OrElse(OptGet(data, K_usageMetadata), OptGet(data, K_usage)), Null)

\* the second walk, over the whole response, and the join
CollectResponse ==
    /\ pc = "collect"
    /\ textPieces' = collectTextPieces(response, textPieces)
    /\ collectorCalls' = collectorCalls + 1
    /\ joinedText' = JoinPieces(collectTextPieces(response, textPieces))
    /\ usage' = UsageOf(response)
    /\ pc' = "direct"
    /\ UNCHANGED <<exit, reqFile, apiKey, error, response, candidate, sent, upstreamCalls,
                   attempts>>

\* the direct parse without its return: the handler goes on after answering
DirectParse_NoReturn ==
    /\ pc = "direct"
    /\ LET parsed == JSONParse(joinedText)
       IN  /\ attempts' = Append(attempts, Attempt("direct", joinedText, parsed.ok))
           /\ sent' = IF parsed.ok THEN Append(sent, ReplyOk(parsed.v)) ELSE sent
           /\ pc' = "brace"
           /\ UNCHANGED exit
    /\ UNCHANGED <<reqFile, apiKey, error, response, candidate, textPieces, joinedText,
                   usage, upstreamCalls, collectorCalls>>

\* the direct parse followed by the last-close heuristic, the brace heuristic
\* left out
DirectParse_SkipBrace ==
    /\ pc = "direct"
    /\ LET parsed == JSONParse(joinedText)
       IN  /\ attempts' = Append(attempts, Attempt("direct", joinedText, parsed.ok))
           /\ IF parsed.ok
              THEN /\ sent' = Append(sent, ReplyOk(parsed.v))
                   /\ pc' = "done"
                   /\ exit' = "direct"
              ELSE /\ pc' = "lastClose"
                   /\ UNCHANGED <<sent, exit>>
    /\ UNCHANGED <<reqFile, apiKey, error, response, candidate, textPieces, joinedText,
                   usage, upstreamCalls, collectorCalls>>

\* try { JSON.parse(joinedText) }
DirectParse ==
    /\ pc = "direct"
    /\ LET parsed == JSONParse(joinedText)
       IN  /\ attempts' = Append(attempts, Attempt("direct", joinedText, parsed.ok))
           /\ IF parsed.ok
              THEN /\ sent' = Append(sent, ReplyOk(parsed.v))
                   /\ pc' = "done"
                   /\ exit' = "direct"
              ELSE /\ pc' = "brace"
                   /\ UNCHANGED <<sent, exit>>
    /\ UNCHANGED <<reqFile, apiKey, error, response, candidate, textPieces, joinedText,
                   usage, upstreamCalls, collectorCalls>>

\* the guard of the last-close heuristic applied to the first brace as well
BraceGuard_Positive(firstBrace, lastBrace) ==
    firstBrace > 0 /\ lastBrace > 0 /\ lastBrace > firstBrace

\* the guard asking for a character between the two braces
BraceGuard_Gap(firstBrace, lastBrace) ==
    firstBrace # -1 /\ lastBrace # -1 /\ lastBrace > firstBrace + 1

\* firstBrace !== -1 && lastBrace !== -1 && lastBrace > firstBrace
BraceGuard(firstBrace, lastBrace) ==
    firstBrace # -1 /\ lastBrace # -1 /\ lastBrace > firstBrace

\* the span cut one short: slice(firstBrace, lastBrace)
BraceSlice_ExclusiveEnd(text) == Slice(text, IndexOf(text, "{"), LastIndexOf(text, "}"))

\* joinedText.slice(firstBrace, lastBrace + 1)
BraceSlice(text) == Slice(text, IndexOf(text, "{"), LastIndexOf(text, "}") + 1)

\* heuristic salvage 1: the span from the first '{' to the last '}'
BraceSalvage ==
    /\ pc = "brace"
    /\ IF BraceGuard(IndexOf(joinedText, "{"), LastIndexOf(joinedText, "}"))
       THEN LET parsed == JSONParse(BraceSlice(joinedText))
            IN  /\ attempts' = Append(attempts,
                                      Attempt("brace", BraceSlice(joinedText), parsed.ok))
                /\ IF parsed.ok
                   THEN /\ sent' = Append(sent, ReplyOk(parsed.v))
                        /\ pc' = "done"
                        /\ exit' = "brace"
                   ELSE /\ pc' = "lastClose"
                        /\ UNCHANGED <<sent, exit>>
       ELSE /\ pc' = "lastClose"
            /\ UNCHANGED <<sent, exit, attempts>>
    /\ UNCHANGED <<reqFile, apiKey, error, response, candidate, textPieces, joinedText,
                   usage, upstreamCalls, collectorCalls>>

\* lastClose > 0
LastCloseGuard(lastClose) == lastClose > 0

\* joinedText.slice(0, lastClose + 1)
LastCloseSlice(text) == Slice(text, 0, LastIndexOf(text, "}") + 1)

\* heuristic salvage 2: the text up to the last '}'
LastCloseSalvage ==
    /\ pc = "lastClose"
    /\ IF LastCloseGuard(LastIndexOf(joinedText, "}"))
       THEN LET parsed == JSONParse(LastCloseSlice(joinedText))
            IN  /\ attempts' = Append(attempts,
                                      Attempt("lastClose", LastCloseSlice(joinedText), parsed.ok))
                /\ IF parsed.ok
                   THEN /\ sent' = Append(sent, ReplyOk(parsed.v))
                        /\ pc' = "done"
                        /\ exit' = "lastClose"
                   ELSE /\ pc' = "fallback"
                        /\ UNCHANGED <<sent, exit>>
       ELSE /\ pc' = "fallback"
            /\ UNCHANGED <<sent, exit, attempts>>
    /\ UNCHANGED <<reqFile, apiKey, error, response, candidate, textPieces, joinedText,
                   usage, upstreamCalls, collectorCalls>>

\* the tail instead of the head: joinedText.slice(32000)
RawPreview_Tail(text) == Slice(text, PreviewLimit, Len(text))

\* joinedText.slice(0, 32000)
RawPreview(text) == Slice(text, 0, PreviewLimit)

\* JSON.stringify(candidate).slice(0, 32000)
CandidatePreview(cand) == Slice(Stringify(cand), 0, PreviewLimit)

\* the debug object with the length of the joined text as piecesCollected
SalvageFailureBody_TextLength(text, pieces, usageData, cand) ==
    Obj(<<Prop(K_error, Str(MsgParseFailed)),
          Prop(K_message, Str(MsgUnexpected)),
          Prop(K_rawPreview, Str(RawPreview(text))),
          Prop(K_piecesCollected, Num(Len(text))),
          Prop(K_usageMetadata, Coalesce(usageData, Null)),
          Prop(K_candidatePreview, Str(CandidatePreview(cand)))>>)

\* the debug object of the final fallback
SalvageFailureBody(text, pieces, usageData, cand) ==
    Obj(<<Prop(K_error, Str(MsgParseFailed)),
          Prop(K_message, Str(MsgUnexpected)),
          Prop(K_rawPreview, Str(RawPreview(text))),
          Prop(K_piecesCollected, Num(Len(pieces))),
          Prop(K_usageMetadata, Coalesce(usageData, Null)),
          Prop(K_candidatePreview, Str(CandidatePreview(cand)))>>)

\* final fallback: every attempt failed
FinalFallback ==
    /\ pc = "fallback"
    /\ sent' = Append(sent, Reply(500, SalvageFailureBody(joinedText, textPieces,
                                                          usage, candidate)))
    /\ pc' = "done"
    /\ exit' = "salvageFailed"
    /\ UNCHANGED <<reqFile, apiKey, error, response, candidate, textPieces, joinedText,
                   usage, upstreamCalls, collectorCalls, attempts>>

Next ==
    \/ Receive
    \/ UpstreamFails
    \/ UpstreamReplies
    \/ CollectResponse
    \/ DirectParse
    \/ BraceSalvage
    \/ LastCloseSalvage
    \/ FinalFallback

Spec == Init /\ [][Next]_vars

(***************************************************************************)
(* Properties.                                                             *)
(***************************************************************************)
\* the single response of a finished request
Body == sent[1].body

\* the handler ended after axios.post resolved
UpstreamAnswered == pc = "done" /\ exit \notin {"noFile", "noKey", "transport"}

\* the text T of a response shaped {candidates: [{content: {parts: [{text: T}]}}]}
StandardText(data) ==
    GetProp(OptIndex(GetProp(GetProp(OptIndex(GetProp(data, K_candidates), 0),
                                     K_content), K_parts), 0), K_text)

\* C1: when the upstream response has the shape
\* {candidates: [{content: {parts: [{text: T}]}}]} and T is a valid JSON
\* document, the handler answers 200 with the parse of T, reached by the
\* direct parse of the joined text.
C1_ValidTextReturnedUnchanged ==
    ( /\ UpstreamAnswered
      /\ response = StandardResponse(StandardText(response).s)
      /\ JSONParse(StandardText(response).s).ok )
    => /\ exit = "direct"
       /\ sent = <<ReplyOk(JSONParse(StandardText(response).s).v)>>

\* C2: collectTextPieces, called on {"output": "hello", "nested": {"text":
\* "world"}} with an empty accumulator, returns exactly <<"hello", "world">>:
\* each value is visited once.
C2_ExampleFragments ==
    (pc = "collect" /\ candidate = ExampleObject)
    => textPieces = <<S_hello, S_world>>

\* C3: the upstream service is called at most once per request, and not at
\* all when the request carries no document, which is answered with 400.
C3_AtMostOneUpstreamCall ==
    /\ upstreamCalls <= 1
    /\ ~reqFile => upstreamCalls = 0
    /\ (pc = "done" /\ ~reqFile)
       => sent = <<Reply(400, Obj(<<Prop(K_error, Str(MsgNoFile))>>))>>
    /\ exit = "transport" => upstreamCalls = 1

\* C3 witness: a request without a document has been answered with 400 and
\* no upstream call was made.
C3_Witness ==
    /\ pc = "done"
    /\ ~reqFile
    /\ Len(sent) = 1
    /\ sent[1].status = 400
    /\ upstreamCalls = 0

\* the salvage chain was entered: the joined text has been built and tried
SalvageRan == pc = "done" /\ exit \in {"direct", "brace", "lastClose", "salvageFailed"}

Positions(text, c) == {i \in 1..Len(text) : text[i] = c}

NoneOf(text, chars) == \A i \in 1..Len(text) : text[i] \notin chars

\* the spans <<a, b>> of text that hold a JSON object text J = text[a..b],
\* with no brace before a and none after b
ObjectSpans(text) ==
    { span \in Positions(text, "{") \X Positions(text, "}") :
        /\ span[1] < span[2]
        /\ NoneOf(SubSeq(text, 1, span[1] - 1), {"{", "}"})
        /\ NoneOf(SubSeq(text, span[2] + 1, Len(text)), {"{", "}"})
        /\ JSONParse(SubSeq(text, span[1], span[2])).ok }

\* C4: when the joined text is prefix + J + suffix, J a valid JSON object
\* text, prefix and suffix free of braces, and the whole text is not valid
\* JSON, the handler answers 200 with the parse of J, from the outer-brace
\* step.
C4_EmbeddedObjectRecovered ==
    (SalvageRan /\ ~JSONParse(joinedText).ok)
    => \A span \in ObjectSpans(joinedText) :
          /\ exit = "brace"
          /\ sent = <<ReplyOk(JSONParse(SubSeq(joinedText, span[1], span[2])).v)>>

\* C4 witness: an object with a property, between a non-empty prefix and a
\* non-empty suffix, has been returned by the outer-brace step.
C4_Witness ==
    /\ SalvageRan
    /\ exit = "brace"
    /\ \E span \in ObjectSpans(joinedText) :
          /\ span[1] > 1
          /\ span[2] < Len(joinedText)
          /\ span[2] - span[1] > 1
          /\ Body = JSONParse(SubSeq(joinedText, span[1], span[2])).v

\* a character a JSON document can end with
EndsDocument(c) == c \in {"}", "]", "\"", "e", "l"} \/ IsDigit(c)

\* the lengths k of the proper prefixes of text that are valid JSON documents
DocumentSplits(text) ==
    { k \in 1..(Len(text) - 1) :
        EndsDocument(text[k]) /\ JSONParse(SubSeq(text, 1, k)).ok }

\* C5, as claimed: when the joined text is a valid JSON document followed by
\* garbage, the document is returned as the success body, recovered by the
\* trailing-truncation step (the slice from index 0 through the last '}').
\* Stated for a joined text that is one fragment, as the upstream sent it.
C5_TrailingTruncationRecovers ==
    (SalvageRan /\ Len(textPieces) = 1 /\ ~JSONParse(joinedText).ok)
    => \A k \in DocumentSplits(joinedText) :
          /\ exit = "lastClose"
          /\ sent = <<ReplyOk(JSONParse(SubSeq(joinedText, 1, k)).v)>>

\* C5, amended: when the joined text is a valid JSON object document followed
\* by non-empty garbage that holds no '}', the document is returned as the
\* success body, recovered by the outer-brace step; the trailing-truncation
\* step is not reached.
C5_LeadingObjectRecovered ==
    SalvageRan
    => \A k \in DocumentSplits(joinedText) :
          ( /\ JSONParse(SubSeq(joinedText, 1, k)).v.t = "obj"
            /\ NoneOf(SubSeq(joinedText, k + 1, Len(joinedText)), {"}"}) )
          => /\ exit = "brace"
             /\ sent = <<ReplyOk(JSONParse(SubSeq(joinedText, 1, k)).v)>>
             /\ \A i \in 1..Len(attempts) : attempts[i].strategy # "lastClose"

\* C5 witness: an object document followed by garbage has been returned.
C5_Witness ==
    /\ SalvageRan
    /\ exit = "brace"
    /\ \E k \in DocumentSplits(joinedText) :
          /\ k > 2
          /\ JSONParse(SubSeq(joinedText, 1, k)).v.t = "obj"
          /\ NoneOf(SubSeq(joinedText, k + 1, Len(joinedText)), {"}"})
          /\ Body = JSONParse(SubSeq(joinedText, 1, k)).v

\* v holds a string somewhere
RECURSIVE HoldsString(_)
HoldsString(v) ==
    \/ v.t = "str"
    \/ \E i \in 1..Len(v.kids) : HoldsString(v.kids[i].v)

\* C6: when a candidate exists and no salvage attempt parses, the handler
\* answers 500 with the salvage-failure body; its rawPreview is a prefix of
\* the joined text of at most 32,000 characters and its piecesCollected is
\* the number of fragments of both collector walks, 0 when the response
\* holds no string.
C6_SalvageFailureBody ==
    ( /\ UpstreamAnswered
      /\ Truthy(candidate)
      /\ \A i \in 1..Len(attempts) : ~attempts[i].ok )
    => /\ exit = "salvageFailed"
       /\ Len(sent) = 1
       /\ sent[1].status = 500
       /\ GetProp(Body, K_error) = Str(MsgParseFailed)
       /\ LET preview == GetProp(Body, K_rawPreview).s
          IN  /\ Len(preview) <= PreviewLimit
              /\ Len(preview) <= Len(joinedText)
              /\ preview = SubSeq(joinedText, 1, Len(preview))
       /\ GetProp(Body, K_piecesCollected)
            = Num(Len(collectTextPieces(candidate, <<>>))
                  + Len(collectTextPieces(response, <<>>)))
       /\ ~HoldsString(response) => GetProp(Body, K_piecesCollected) = Num(0)

\* C6 witness: a salvage failure on a response whose candidate holds a
\* string: four fragments were collected and the preview is the joined text.
C6_Witness ==
    /\ pc = "done"
    /\ exit = "salvageFailed"
    /\ Truthy(candidate)
    /\ HoldsString(candidate)
    /\ Len(textPieces) = 4
    /\ GetProp(Body, K_piecesCollected) = Num(4)
    /\ GetProp(Body, K_rawPreview) = Str(joinedText)
    /\ joinedText # <<>>

\* the body of the outer catch for a rejection
TransportBody(rejection) ==
    Obj(<<Prop(K_error, Str(MsgTransport)),
          Prop(K_detail, IF OptGet(rejection.response, K_data).t \in {"undef", "null"}
                         THEN rejection.message
                         ELSE OptGet(rejection.response, K_data))>>)

\* C7: when the upstream call succeeds and the response has no first
\* candidate (candidates absent, empty, or a falsy first element), the
\* handler answers 500 with the no-candidate error and the raw response, a
\* body that no transport failure produces, and neither the collector nor a
\* parse attempt runs.
C7_NoCandidateError ==
    /\ (collectorCalls > 0 \/ attempts # <<>>) => Truthy(candidate)
    /\ (UpstreamAnswered /\ ~Truthy(OptIndex(OptGet(response, K_candidates), 0)))
       => /\ exit = "noCandidate"
          /\ sent = <<Reply(500, Obj(<<Prop(K_error, Str(MsgNoCandidate)),
                                       Prop(K_rawResponse, response)>>))>>
          /\ \A rejection \in TransportErrors : Body # TransportBody(rejection)
          /\ GetProp(Body, K_error) # Str(MsgTransport)
          /\ collectorCalls = 0
          /\ attempts = <<>>
          /\ textPieces = <<>>

\* C7 witness: a response whose first candidate is null has been answered
\* with the no-candidate error.
C7_Witness ==
    /\ pc = "done"
    /\ exit = "noCandidate"
    /\ response = Obj(<<Prop(K_candidates, Arr(<<Null>>))>>)
    /\ sent[1].status = 500
    /\ GetProp(Body, K_rawResponse) = response

FailureExits == {"noFile", "noKey", "transport", "noCandidate", "salvageFailed"}

\* C8, as claimed: on every failure path the error body holds upstream
\* content only as a bounded preview: each of its properties is a number,
\* null, or a string of at most 32,000 characters, never a structure of
\* the upstream response.
C8_OnlyBoundedPreviews ==
    (pc = "done" /\ exit \in FailureExits)
    => \A i \in 1..Len(Body.kids) :
          /\ Body.kids[i].v.t \in {"str", "num", "null", "undef"}
          /\ Len(Body.kids[i].v.s) <= PreviewLimit

Shorter(a, b) == IF a < b THEN a ELSE b

\* C8, amended: the missing-document and missing-key bodies are fixed; the
\* salvage-failure body holds the joined text and the serialized candidate
\* as previews of at most 32,000 characters, and the usage metadata whole;
\* the no-candidate body holds the whole raw response and the
\* transport-failure body the whole upstream error payload (or the error
\* message when there is none).
C8_PreviewsOnSalvageFailureOnly ==
    pc = "done"
    => /\ exit = "noFile" => Body = Obj(<<Prop(K_error, Str(MsgNoFile))>>)
       /\ exit = "noKey" => Body = Obj(<<Prop(K_error, Str(MsgNoKey))>>)
       /\ exit = "salvageFailed"
          => /\ GetProp(Body, K_rawPreview)
                  = Str(SubSeq(joinedText, 1, Shorter(Len(joinedText), PreviewLimit)))
             /\ Len(GetProp(Body, K_candidatePreview).s) <= PreviewLimit
             /\ GetProp(Body, K_candidatePreview).s
                  = SubSeq(Stringify(candidate), 1, Len(GetProp(Body, K_candidatePreview).s))
             /\ GetProp(Body, K_usageMetadata) = usage
             /\ GetProp(Body, K_message).t = "str"
       /\ exit = "noCandidate" => GetProp(Body, K_rawResponse) = response
       /\ exit = "transport" => Body = TransportBody(error)

\* C8 witness: a no-candidate body that holds a raw response longer than a
\* preview.
C8_Witness ==
    /\ pc = "done"
    /\ exit = "noCandidate"
    /\ Len(GetProp(Body, K_rawResponse).s) > PreviewLimit

\* at most one response is sent, it is sent when the handler ends and not
\* before, and its status is 200 on a salvage success, 400 on a missing
\* document and 500 otherwise
OneResponseAtEnd ==
    /\ Len(sent) <= 1
    /\ pc = "done" <=> Len(sent) = 1
    /\ pc = "done"
       => /\ sent[1].status \in {200, 400, 500}
          /\ sent[1].status = 200 <=> exit \in {"direct", "brace", "lastClose"}
          /\ sent[1].status = 400 <=> exit = "noFile"
          /\ sent[1].body.t # "undef" \/ exit \in {"direct", "brace", "lastClose"}
          /\ exit = "transport" => sent[1].status = 500

\* the positions of the handler, in the order the code reaches them
PcRank(position) ==
    CASE position = "start" -> 0
      [] position = "await" -> 1
      [] position = "collect" -> 2
      [] position = "direct" -> 3
      [] position = "brace" -> 4
      [] position = "lastClose" -> 5
      [] position = "fallback" -> 6
      [] position = "done" -> 7

\* C9: every request ends, for every upstream outcome, with exactly one
\* response, of status 200, 400 or 500: one response is sent, when the
\* handler ends and not before; a rejection of the upstream call is answered
\* with 500; and every step moves the handler forward, so that it ends
\* within seven steps.
C9_ExactlyOneResponse ==
    /\ []OneResponseAtEnd
    /\ [][PcRank(pc') > PcRank(pc)]_vars

\* C9 witness: a timeout of the upstream call has been answered with 500.
C9_Witness ==
    /\ pc = "done"
    /\ exit = "transport"
    /\ error.message = Str(MsgTimeout)
    /\ Len(sent) = 1
    /\ sent[1].status = 500

StrategyRank(strategy) ==
    CASE strategy = "direct" -> 1
      [] strategy = "brace" -> 2
      [] strategy = "lastClose" -> 3

Least(S) == CHOOSE x \in S : \A y \in S : x <= y

Greatest(S) == CHOOSE x \in S : \A y \in S : x >= y

\* the text an attempt of the strategy parses
StrategyText(strategy, text) ==
    CASE strategy = "direct" -> text
      [] strategy = "brace" ->
           SubSeq(text, Least(Positions(text, "{")), Greatest(Positions(text, "}")))
      [] strategy = "lastClose" -> SubSeq(text, 1, Greatest(Positions(text, "}")))

\* the guard under which the strategy is attempted
StrategyGuard(strategy, text) ==
    CASE strategy = "direct" -> TRUE
      [] strategy = "brace" ->
           /\ Positions(text, "{") # {}
           /\ Positions(text, "}") # {}
           /\ Greatest(Positions(text, "}")) > Least(Positions(text, "{"))
      [] strategy = "lastClose" ->
           /\ Positions(text, "}") # {}
           /\ Greatest(Positions(text, "}")) > 1

\* C10: the attempts are made in the order direct, outer-brace, trailing
\* truncation, each on its own slice of the joined text; an attempt that
\* parses is the last one and its value is the success body; the
\* salvage-failure response is sent only when every strategy has been
\* attempted and failed or was skipped by its guard.
C10_FirstSuccessWins ==
    /\ \A i \in 1..Len(attempts) :
          /\ \A j \in 1..(i - 1) :
                /\ StrategyRank(attempts[j].strategy) < StrategyRank(attempts[i].strategy)
                /\ ~attempts[j].ok
          /\ StrategyGuard(attempts[i].strategy, joinedText)
          /\ attempts[i].text = StrategyText(attempts[i].strategy, joinedText)
          /\ attempts[i].ok
             => /\ pc = "done"
                /\ exit = attempts[i].strategy
                /\ sent = <<ReplyOk(JSONParse(attempts[i].text).v)>>
    /\ exit \in {"direct", "brace", "lastClose"}
       => attempts # <<>> /\ attempts[Len(attempts)].ok
    /\ exit = "salvageFailed"
       => \A strategy \in {"direct", "brace", "lastClose"} :
             \/ ~StrategyGuard(strategy, joinedText)
             \/ \E i \in 1..Len(attempts) :
                   attempts[i].strategy = strategy /\ ~attempts[i].ok

\* C10 witness: the direct parse failed and the outer-brace attempt, the
\* second and last, gave the success body.
C10_Witness ==
    /\ pc = "done"
    /\ exit = "brace"
    /\ Len(attempts) = 2
    /\ ~attempts[1].ok
    /\ attempts[2].ok
    /\ Body = JSONParse(attempts[2].text).v

\* the direct parse has been made and failed
DirectFailed == attempts # <<>> /\ ~attempts[1].ok

\* the trailing-truncation slice of the text exists and parses
LastCloseParses(text) ==
    /\ StrategyGuard("lastClose", text)
    /\ JSONParse(StrategyText("lastClose", text)).ok

\* C11: whenever the trailing-truncation slice of the joined text (index 0
\* through the last '}') parses, the outer-brace slice (first '{' through
\* the last '}') passes its guard and parses to the same value, and on every
\* path past the direct parse it is attempted and gives the success body; so
\* the trailing-truncation attempt never succeeds, and every text the chain
\* recovers is recovered by the direct parse or the outer-brace step.
C11_LastCloseNeverRecovers ==
    /\ (PcRank(pc) >= 3 /\ LastCloseParses(joinedText))
       => /\ StrategyGuard("brace", joinedText)
          /\ JSONParse(StrategyText("brace", joinedText)).ok
          /\ JSONParse(StrategyText("brace", joinedText)).v
               = JSONParse(StrategyText("lastClose", joinedText)).v
          /\ (DirectFailed /\ PcRank(pc) >= 5)
             => /\ pc = "done"
                /\ exit = "brace"
                /\ Len(attempts) = 2
                /\ attempts[2] = Attempt("brace", StrategyText("brace", joinedText), TRUE)
                /\ sent = <<ReplyOk(JSONParse(StrategyText("lastClose", joinedText)).v)>>
    /\ \A i \in 1..Len(attempts) : attempts[i].strategy = "lastClose" => ~attempts[i].ok
    /\ exit # "lastClose"
    /\ (pc = "done" /\ sent # <<>> /\ sent[1].status = 200) => exit \in {"direct", "brace"}

\* C11 witness: the direct parse failed on a text whose trailing-truncation
\* slice parses, and the outer-brace attempt has returned its value.
C11_Witness ==
    /\ pc = "done"
    /\ DirectFailed
    /\ LastCloseParses(joinedText)
    /\ exit = "brace"
    /\ Body = JSONParse(StrategyText("lastClose", joinedText)).v

\* the number of occurrences of a fragment in a fragment list
Occurrences(piece, pieces) == Cardinality({i \in 1..Len(pieces) : pieces[i] = piece})

\* the elements of a fragment list
Fragments(pieces) == {pieces[i] : i \in 1..Len(pieces)}

RECURSIVE TextKeyStrings(_)
\* the non-empty strings a value stores, at any depth, under a text-like key
TextKeyStrings(v) ==
    IF v.t = "obj"
    THEN UNION { (IF TextKeyRegexTest(v.kids[i].k) /\ v.kids[i].v.t = "str"
                     /\ v.kids[i].v.s # <<>>
                  THEN {v.kids[i].v.s} ELSE {})
                 \cup TextKeyStrings(v.kids[i].v) : i \in 1..Len(v.kids) }
    ELSE IF v.t = "arr"
    THEN UNION { TextKeyStrings(v.kids[i].v) : i \in 1..Len(v.kids) }
    ELSE {}

\* both walks are done on a response that has a candidate
BothWalksDone == PcRank(pc) >= 3 /\ exit # "noCandidate" /\ Truthy(candidate)

\* the final list is the candidate's walk followed by the whole response's
ListIsBothWalks ==
    textPieces = collectTextPieces(candidate, <<>>) \o collectTextPieces(response, <<>>)

\* every fragment of the candidate's walk occurs in the walk of the whole
\* response at least as often as in the candidate's
CandidateWalkRepeated ==
    \A f \in Fragments(collectTextPieces(candidate, <<>>)) :
        Occurrences(f, collectTextPieces(response, <<>>))
            >= Occurrences(f, collectTextPieces(candidate, <<>>))

\* piecesCollected is at least twice the number of candidate fragments
CountAtLeastDoubled ==
    /\ Len(textPieces) >= 2 * Len(collectTextPieces(candidate, <<>>))
    /\ exit = "salvageFailed" => GetProp(Body, K_piecesCollected) = Num(Len(textPieces))

\* a non-empty string under a text-like key of the candidate is four times
\* in the list
TextKeyStringsFourfold ==
    \A str \in TextKeyStrings(candidate) : Occurrences(str, textPieces) >= 4

\* C12 as stated: for every response with a candidate the final fragment
\* list is collect(candidate) followed by collect(whole response), every
\* fragment of the candidate's walk occurs again in the second walk, the
\* list is at least twice as long as the candidate's walk, and every
\* non-empty string under a text-like key of the candidate is in it at
\* least four times.
C12_CandidateWalkedTwice ==
    BothWalksDone
    => /\ ListIsBothWalks
       /\ CandidateWalkRepeated
       /\ CountAtLeastDoubled
       /\ TextKeyStringsFourfold

\* C12 amended: the list is the two walks in order, at least twice as long
\* as the candidate's walk, and holds every non-empty text-key string of the
\* candidate at least four times, for every response with a candidate; the
\* candidate's fragments occur again in the second walk when `candidates`
\* is not a string, that is when the candidate is a value the response
\* holds and not a one-character copy.
C12_CandidateWalkedTwiceWhenHeld ==
    BothWalksDone
    => /\ ListIsBothWalks
       /\ OptGet(response, K_candidates).t # "str" => CandidateWalkRepeated
       /\ CountAtLeastDoubled
       /\ TextKeyStringsFourfold

\* C12 witness: both walks are done on a candidate that stores a non-empty
\* string under a text-like key, and the list holds it exactly four times.
C12_Witness ==
    /\ BothWalksDone
    /\ OptGet(response, K_candidates).t = "arr"
    /\ \E str \in TextKeyStrings(candidate) :
          /\ Occurrences(str, textPieces) = 4
          /\ Occurrences(str, collectTextPieces(candidate, <<>>)) = 2
    /\ Len(textPieces) = 2 * Len(collectTextPieces(candidate, <<>>))
====
